---- MODULE Spec2Model ----
(***************************************************************************)
(* Model of Core/Src/main.c: a producer task that samples three I2C        *)
(* sensors in batches into a ring buffer, and a consumer task that copies  *)
(* the buffer out, computes statistics and transmits them, coordinated by  *)
(* one mutex and two binary semaphores (FreeRTOS).                         *)
(***************************************************************************)
EXTENDS Integers, Sequences, FiniteSets, TLC

(* ------------------------------------------------------------------ *)
(* Sizes.  The program uses BUFFER_SIZE 100 and batches of 30 samples; *)
(* the model keeps the code and scales both numbers down.              *)
(* ------------------------------------------------------------------ *)

\* main.c:44  #define BUFFER_SIZE 100 (scaled)
BUFFER_SIZE == 4

\* main.c:127  for (int i = 0; i < 30; ++i) (scaled)
BATCH_SIZE == 2

\* number of batches the producer may start in a run of the model
MaxBatches == 3

\* number of times the external agent may signal producer_semaphore at boot
MaxBootGives == 2

\* main.c:45-47 device addresses
PIR_I2C_ADDRESS == 1
HUMIDITY_AND_HEAT_I2C_ADDRESS == 2
LDR_I2C_ADDRESS == 3

\* a binary semaphore is a queue of length one (xSemaphoreCreateBinary)
uxMaxCount == 1

Slots == 0 .. (BUFFER_SIZE - 1)

VARIABLES
    scheduler,              \* "boot" until vTaskStartScheduler, then "running"
    boot_given,             \* gives issued by the external agent at boot
    producer_semaphore,     \* count of the binary semaphore, 0 or 1
    consumer_semaphore,
    sensor_buffer_mutex,    \* the set of tasks holding the mutex
    sensor_buffer,          \* [Slots -> sensor_data_t]
    buffer_head,
    buffer_tail,
    ppc,                    \* producer_task position
    i,                      \* producer loop counter
    sensor_data,            \* producer local: the reading sampled last
    cpc,                    \* consumer_task position
    ci,                     \* consumer copy loop counter
    pir_data,               \* consumer locals
    humidity_and_heat_data,
    ldr_data,
    filtered_data,
    uart_tx,                \* records handed to HAL_UART_Transmit, in order
    push_ret,               \* << return value of the last buffer_push call >>, << >> before any
    push_log,               \* history: one entry per producer iteration
    access_log,             \* history: begin/end of every buffer-access phase
    sem_log,                \* history: every give and take of a semaphore
    p_events,               \* history: events of the producer's current loop pass
    c_events,               \* history: events of the consumer's current cycle
    snapshot,               \* history: sensor_buffer when the consumer last released the mutex
    history,                \* "on": the four logs above the events grow; "off": they stay empty
    hal_status,             \* statuses of the three bus reads of a sampled iteration
    stat_count,             \* a call of the statistics functions: the count argument
    stat_input,             \* the caller's array before the call
    stat_data,              \* the caller's array as the call leaves it
    stat_result             \* << the four results >>, << >> before the call

vars == << scheduler, boot_given, producer_semaphore, consumer_semaphore,
           sensor_buffer_mutex, sensor_buffer, buffer_head, buffer_tail,
           ppc, i, sensor_data, cpc, ci, pir_data, humidity_and_heat_data,
           ldr_data, filtered_data, uart_tx, push_ret, push_log, access_log,
           sem_log, p_events, c_events, snapshot, history, hal_status,
           stat_count, stat_input, stat_data, stat_result >>

sharedVars == << sensor_buffer, buffer_head, buffer_tail >>
producerVars == << ppc, i, sensor_data, p_events, push_ret, push_log >>
consumerVars == << cpc, ci, pir_data, humidity_and_heat_data, ldr_data,
                   filtered_data, uart_tx, c_events, snapshot >>
bootVars == << scheduler, boot_given >>
harnessVars == << history, hal_status, stat_count, stat_input, stat_data, stat_result >>

(* ------------------------------------------------------------------ *)
(* Data                                                                *)
(* ------------------------------------------------------------------ *)

\* sensor_data_t
SensorData(p, h, l) == [PIR |-> p, humidity_and_heat |-> h, LDR |-> l]

\* a global array is zero-initialised
ZeroReading == SensorData(0, 0, 0)

\* The two bytes HAL_I2C_Master_Receive may deliver from each device.
I2CBytes(device_address) ==
    CASE device_address = PIR_I2C_ADDRESS -> { <<0, 1>>, <<0, 2>> }
      [] device_address = HUMIDITY_AND_HEAT_I2C_ADDRESS -> { <<0, 3>> }
      [] device_address = LDR_I2C_ADDRESS -> { <<1, 0>> }

\* uint8_t data[2] is not initialised: when the receive fails the bytes are
\* whatever the stack holds, here bytes an earlier read of the device left
Uninitialised(device_address) == I2CBytes(device_address)

\* HAL_I2C_Master_Receive(&hi2c1, device_address << 1, data, 2, HAL_MAX_DELAY):
\* the status it returns and the content of data[] afterwards
HAL_I2C_Master_Receive(device_address) ==
    { [status |-> "HAL_OK", data |-> b] : b \in I2CBytes(device_address) }
        \cup { [status |-> st, data |-> b] :
                   st \in {"HAL_ERROR", "HAL_BUSY"},
                   b \in Uninitialised(device_address) }

\* data[] after the call; the status is not looked at (main.c:232)
ReceivedBytes(device_address) ==
    { o.data : o \in HAL_I2C_Master_Receive(device_address) }

\* (float)((data[0] << 8) | data[1])
i2c_read_sensor_data(data) == data[1] * 256 + data[2]

Readings ==
    { SensorData(i2c_read_sensor_data(b1), i2c_read_sensor_data(b2),
                 i2c_read_sensor_data(b3)) :
        b1 \in ReceivedBytes(PIR_I2C_ADDRESS),
        b2 \in ReceivedBytes(HUMIDITY_AND_HEAT_I2C_ADDRESS),
        b3 \in ReceivedBytes(LDR_I2C_ADDRESS) }

(* ------------------------------------------------------------------ *)
(* buffer_push (main.c:218-226), as a function of the state it reads   *)
(* ------------------------------------------------------------------ *)

\* A plausible slip: the reading is stored at the advanced index.
buffer_push_StoresAtNext(buf, head, tail, data) ==
    LET next_head == (head + 1) % BUFFER_SIZE IN
    IF next_head # tail
    THEN [ret |-> TRUE,
          sensor_buffer |-> [buf EXCEPT ![next_head] = data],
          buffer_head |-> next_head]
    ELSE [ret |-> FALSE, sensor_buffer |-> buf, buffer_head |-> head]

\* The reading stored at head without the full test.
buffer_push_Overwrites(buf, head, tail, data) ==
    [ret |-> TRUE,
     sensor_buffer |-> [buf EXCEPT ![head] = data],
     buffer_head |-> (head + 1) % BUFFER_SIZE]

buffer_push(buf, head, tail, data) ==
    LET next_head == (head + 1) % BUFFER_SIZE IN
    IF next_head # tail
    THEN [ret |-> TRUE,
          sensor_buffer |-> [buf EXCEPT ![head] = data],
          buffer_head |-> next_head]
    ELSE [ret |-> FALSE, sensor_buffer |-> buf, buffer_head |-> head]

\* The second push made without advancing buffer_head first.
PushWithRecovery_NoAdvance(buf, head, tail, data) ==
    LET first == buffer_push(buf, head, tail, data) IN
    IF first.ret
    THEN [first |-> TRUE, retry |-> << >>, retry_head |-> << >>,
          sensor_buffer |-> first.sensor_buffer,
          buffer_head |-> first.buffer_head]
    ELSE LET second == buffer_push(buf, head, tail, data)
         IN  [first |-> FALSE, retry |-> << second.ret >>, retry_head |-> << head >>,
              sensor_buffer |-> second.sensor_buffer,
              buffer_head |-> second.buffer_head]

\* One pass of the producer's loop body after sampling (main.c:135-140):
\* push, and on a full buffer advance buffer_head and push again;
\* retry_head is buffer_head as the second push finds it.
PushWithRecovery(buf, head, tail, data) ==
    LET first == buffer_push(buf, head, tail, data) IN
    IF first.ret
    THEN [first |-> TRUE, retry |-> << >>, retry_head |-> << >>,
          sensor_buffer |-> first.sensor_buffer,
          buffer_head |-> first.buffer_head]
    ELSE LET moved == (head + 1) % BUFFER_SIZE
             second == buffer_push(buf, moved, tail, data)
         IN  [first |-> FALSE, retry |-> << second.ret >>, retry_head |-> << moved >>,
              sensor_buffer |-> second.sensor_buffer,
              buffer_head |-> second.buffer_head]

(* ------------------------------------------------------------------ *)
(* Statistics (main.c:248-308).  The inputs are integer-valued floats; *)
(* results are exact rationals [num, den]; the standard deviation is   *)
(* kept as the rational under the square root.                         *)
(* ------------------------------------------------------------------ *)

Rat(n, d) == [num |-> n, den |-> d]

RECURSIVE SumOf(_, _)
\* sum of data[0 .. count-1]  (main.c:252-254)
SumOf(data, count) ==
    IF count = 0 THEN 0 ELSE SumOf(data, count - 1) + data[count - 1]

RECURSIVE SumSqDev(_, _, _, _)
\* sum over k < upto of (count * data[k] - sum)^2, i.e. count^2 * (data[k] - mean)^2
SumSqDev(data, count, sum, upto) ==
    IF upto = 0 THEN 0
    ELSE SumSqDev(data, count, sum, upto - 1)
         + (count * data[upto - 1] - sum) * (count * data[upto - 1] - sum)

\* The sum of squared deviations divided by count - 1 (sample standard deviation).
calculate_std_dev_Sample(data, count) ==
    LET sum == SumOf(data, count) IN
    [sqrt_of |-> Rat(SumSqDev(data, count, sum, count), count * count * (count - 1))]

\* sqrt(std_dev / count) with std_dev = sum (data[i] - mean)^2: the result's square
calculate_std_dev(data, count) ==
    LET sum == SumOf(data, count) IN
    [sqrt_of |-> Rat(SumSqDev(data, count, sum, count), count * count * count)]

RECURSIVE MaxFrom(_, _, _, _)
MaxFrom(data, count, k, max) ==
    CHOOSE r \in
        { IF k >= count THEN m
          ELSE MaxFrom(data, count, k + 1, IF data[k] > m THEN data[k] ELSE m)
          : m \in {max} } : TRUE

calculate_max(data, count) == Rat(MaxFrom(data, count, 1, data[0]), 1)

\* The minimum taken as its first element without looking at the rest.
calculate_min_FirstOnly(data, count) == Rat(data[0], 1)

RECURSIVE MinFrom(_, _, _, _)
MinFrom(data, count, k, min) ==
    CHOOSE r \in
        { IF k >= count THEN m
          ELSE MinFrom(data, count, k + 1, IF data[k] < m THEN data[k] ELSE m)
          : m \in {min} } : TRUE

calculate_min(data, count) == Rat(MinFrom(data, count, 1, data[0]), 1)

\* (count - 1) / 2 in uint32_t arithmetic: 0xFFFFFFFF / 2 when count = 0
LowerMiddle(count) == IF count = 0 THEN 2147483647 ELSE (count - 1) \div 2

RECURSIVE SortInner(_, _, _, _)
\* inner loop of the exchange sort (main.c:294-300)
\* (d is the array on entry to this pass, evaluated once)
SortInner(data, a, j, count) ==
    CHOOSE r \in
        { IF j >= count THEN d
          ELSE SortInner(IF d[a] > d[j]
                         THEN [d EXCEPT ![a] = d[j], ![j] = d[a]]
                         ELSE d,
                         a, j + 1, count) : d \in {data} } : TRUE

RECURSIVE SortOuter(_, _, _)
\* outer loop (main.c:293-301)
\* count - 1 is uint32_t arithmetic: with count = 0 the bound is 0xFFFFFFFF and
\* every one of the passes has an empty inner loop (j < 0 never holds)
SortOuter(data, a, count) ==
    IF count = 0 THEN data
    ELSE IF a >= count - 1 THEN data
    ELSE SortOuter(SortInner(data, a, a + 1, count), a + 1, count)

\* The upper middle element returned for every count.
calculate_median_UpperMiddle(data, count) ==
    LET sorted == SortOuter(data, 0, count) IN
    [data |-> sorted, value |-> Rat(sorted[count \div 2], 1)]

\* calculate_median sorts the caller's array in place and returns the median
calculate_median(data, count) ==
    LET sorted == SortOuter(data, 0, count) IN
    [data |-> sorted,
     value |-> IF count % 2 # 0
               THEN Rat(sorted[count \div 2], 1)
               ELSE Rat(sorted[LowerMiddle(count)] + sorted[count \div 2], 2)]

\* The twelve fields computed from three arrays (main.c:182-210)
Summarize(pir, hum, ldr) ==
    [pir_std_dev |-> calculate_std_dev(pir, BUFFER_SIZE),
     pir_max |-> calculate_max(pir, BUFFER_SIZE),
     pir_min |-> calculate_min(pir, BUFFER_SIZE),
     pir_median |-> calculate_median(pir, BUFFER_SIZE).value,
     humidity_and_heat_std_dev |-> calculate_std_dev(hum, BUFFER_SIZE),
     humidity_and_heat_max |-> calculate_max(hum, BUFFER_SIZE),
     humidity_and_heat_min |-> calculate_min(hum, BUFFER_SIZE),
     humidity_and_heat_median |-> calculate_median(hum, BUFFER_SIZE).value,
     ldr_std_dev |-> calculate_std_dev(ldr, BUFFER_SIZE),
     ldr_max |-> calculate_max(ldr, BUFFER_SIZE),
     ldr_min |-> calculate_min(ldr, BUFFER_SIZE),
     ldr_median |-> calculate_median(ldr, BUFFER_SIZE).value]

NoSummary == [none |-> TRUE]

(* ------------------------------------------------------------------ *)
(* FreeRTOS primitives as the tasks use them                           *)
(* ------------------------------------------------------------------ *)

\* The legacy macro vSemaphoreCreateBinary creates the semaphore given.
vSemaphoreCreateBinary == 1

\* xSemaphoreCreateBinary creates the semaphore empty (main.c:104-105)
xSemaphoreCreateBinary == 0

\* A counting semaphore would accumulate gives.
xSemaphoreGive_Counting(count) == count + 1

\* xSemaphoreGive on a binary semaphore: a give on a full one is dropped
xSemaphoreGive(count) == IF count < uxMaxCount THEN count + 1 ELSE count

\* A take with a zero block time returns at once, and the code ignores its result.
xSemaphoreTake_NoWait(count) == TRUE

\* xSemaphoreTake(sem, portMAX_DELAY) returns only when the count is positive
xSemaphoreTake_Ready(count) == count > 0

\* A wait that does not block when the mutex is held.
osMutexWait_NoBlock(holders) == TRUE

\* osMutexWait(mutex, osWaitForever) returns only when no task holds it
osMutexWait_Ready(holders) == holders = {}

\* the logs grow only while the history is kept
Record(log, e) == IF history = "on" THEN Append(log, e) ELSE log

SemEvent(op, sem, by, before, after) ==
    [op |-> op, sem |-> sem, by |-> by, before |-> before, after |-> after]

Count(log, e) == Cardinality({k \in DOMAIN log : log[k] = e})

BatchesStarted == Count(access_log, "batch_begin")
BatchesDone == Count(access_log, "batch_end")
CopiesStarted == Count(access_log, "copy_begin")
CopiesDone == Count(access_log, "copy_end")

Gives(sem) == Cardinality({k \in DOMAIN sem_log :
                              sem_log[k].op = "give" /\ sem_log[k].sem = sem})
Takes(sem) == Cardinality({k \in DOMAIN sem_log :
                              sem_log[k].op = "take" /\ sem_log[k].sem = sem})

\* sizeof(float) on the target; data[48] is "4 bytes x 12 data" (main.c:241)
sizeof_float == 4

\* uint8_t data[48]: the bytes handed to HAL_UART_Transmit (main.c:241, 244)
sizeof_data == 48

\* the object representation of one float: its bytes, numbered 1..sizeof_float
FloatBytes(x) == [b \in 1..sizeof_float |-> << x, b >>]

\* filtered_data_for_ble: the twelve members in declaration order (main.c:24-37)
StructFields(fd) ==
    << fd.pir_std_dev, fd.pir_max, fd.pir_min, fd.pir_median,
       fd.humidity_and_heat_std_dev, fd.humidity_and_heat_max,
       fd.humidity_and_heat_min, fd.humidity_and_heat_median,
       fd.ldr_std_dev, fd.ldr_max, fd.ldr_min, fd.ldr_median >>

\* sizeof(filtered_data_for_ble): twelve floats, no padding
sizeof_filtered_data == 12 * sizeof_float

\* the object representation of the struct, byte by byte
StructBytes(fd) ==
    [k \in 1..sizeof_filtered_data |->
        FloatBytes(StructFields(fd)[((k - 1) \div sizeof_float) + 1])
                  [((k - 1) % sizeof_float) + 1]]

\* The members sent grouped by statistic instead of by sensor kind.
broadcast_ble_ByStatistic(fd) ==
    LET f == StructFields(fd)
        order == << 1, 5, 9, 2, 6, 10, 3, 7, 11, 4, 8, 12 >>
    IN  [k \in 1..sizeof_data |->
            FloatBytes(f[order[((k - 1) \div sizeof_float) + 1]])
                      [((k - 1) % sizeof_float) + 1]]

\* memcpy(data, &filtered_data, sizeof(filtered_data_for_ble)), then
\* HAL_UART_Transmit of sizeof(data) bytes (main.c:239-245)
broadcast_ble(fd) ==
    LET copied == StructBytes(fd) IN
    [k \in 1..sizeof_data |-> copied[k]]

(* ------------------------------------------------------------------ *)
(* Initial state: main has created the mutex, the semaphores and the   *)
(* tasks (main.c:103-109); the scheduler is not started yet.           *)
(* ------------------------------------------------------------------ *)

\* no call of the statistics functions or of a single iteration is under way
HarnessIdle ==
    /\ hal_status = << >>
    /\ stat_count = 0
    /\ stat_input = << >>
    /\ stat_data = << >>
    /\ stat_result = << >>

\* everything main has set up before the scheduler starts
TasksCreated ==
    /\ scheduler = "boot"
    /\ boot_given = 0
    /\ producer_semaphore = xSemaphoreCreateBinary
    /\ consumer_semaphore = xSemaphoreCreateBinary
    /\ sensor_buffer_mutex = {}
    /\ sensor_buffer = [s \in Slots |-> ZeroReading]
    /\ buffer_head = 0
    /\ buffer_tail = 0
    /\ ppc = "take_sem"
    /\ i = 0
    /\ sensor_data = ZeroReading
    /\ cpc = "take_sem"
    /\ ci = 0
    /\ pir_data = [s \in Slots |-> 0]
    /\ humidity_and_heat_data = [s \in Slots |-> 0]
    /\ ldr_data = [s \in Slots |-> 0]
    /\ filtered_data = NoSummary
    /\ uart_tx = << >>
    /\ push_ret = << >>
    /\ push_log = << >>
    /\ access_log = << >>
    /\ sem_log = << >>
    /\ p_events = << >>
    /\ c_events = << >>
    /\ snapshot = [s \in Slots |-> ZeroReading]

Init ==
    /\ TasksCreated
    /\ history = "on"
    /\ HarnessIdle

(* ------------------------------------------------------------------ *)
(* Boot                                                                *)
(* ------------------------------------------------------------------ *)

\* The environment of the startup hazard: an external agent may signal
\* producer_semaphore before the tasks run.  Nothing in main.c does so.
BootGive ==
    /\ scheduler = "boot"
    /\ boot_given < MaxBootGives
    /\ producer_semaphore' = xSemaphoreGive(producer_semaphore)
    /\ boot_given' = boot_given + 1
    /\ sem_log' = Record(sem_log, SemEvent("give", "producer", "boot",
                                           producer_semaphore, producer_semaphore'))
    /\ UNCHANGED << scheduler, consumer_semaphore, sensor_buffer_mutex, access_log >>
    /\ UNCHANGED << harnessVars, sharedVars, producerVars, consumerVars >>

\* vTaskStartScheduler (main.c:112)
StartScheduler ==
    /\ scheduler = "boot"
    /\ scheduler' = "running"
    /\ UNCHANGED << boot_given, producer_semaphore, consumer_semaphore,
                    sensor_buffer_mutex, access_log, sem_log >>
    /\ UNCHANGED << harnessVars, sharedVars, producerVars, consumerVars >>

(* ------------------------------------------------------------------ *)
(* producer_task (main.c:119-148)                                      *)
(* ------------------------------------------------------------------ *)

\* The producer's take returning without clearing the semaphore.
ProducerTake_LeavesSignal ==
    /\ scheduler = "running"
    /\ ppc = "take_sem"
    /\ BatchesStarted < MaxBatches
    /\ xSemaphoreTake_Ready(producer_semaphore)
    /\ sem_log' = Record(sem_log, SemEvent("take", "producer", "producer",
                                           producer_semaphore, producer_semaphore))
    /\ ppc' = "lock"
    /\ p_events' = << "take" >>
    /\ UNCHANGED << i, sensor_data, push_ret, push_log >>
    /\ UNCHANGED << producer_semaphore, consumer_semaphore, sensor_buffer_mutex,
                    access_log >>
    /\ UNCHANGED << harnessVars, bootVars, sharedVars, consumerVars >>

\* xSemaphoreTake(producer_semaphore, portMAX_DELAY)
ProducerTake ==
    /\ scheduler = "running"
    /\ ppc = "take_sem"
    /\ BatchesStarted < MaxBatches
    /\ xSemaphoreTake_Ready(producer_semaphore)
    /\ producer_semaphore' = producer_semaphore - 1
    /\ sem_log' = Record(sem_log, SemEvent("take", "producer", "producer",
                                           producer_semaphore, producer_semaphore'))
    /\ ppc' = "lock"
    /\ p_events' = << "take" >>
    /\ UNCHANGED << i, sensor_data, push_ret, push_log >>
    /\ UNCHANGED << consumer_semaphore, sensor_buffer_mutex, access_log >>
    /\ UNCHANGED << harnessVars, bootVars, sharedVars, consumerVars >>

\* The batch entered without taking the mutex.
ProducerLock_NoAcquire ==
    /\ ppc = "lock"
    /\ access_log' = Record(access_log, "batch_begin")
    /\ ppc' = "sample"
    /\ i' = 0
    /\ p_events' = Append(p_events, "lock")
    /\ UNCHANGED << sensor_data, push_ret, push_log, sensor_buffer_mutex >>
    /\ UNCHANGED << producer_semaphore, consumer_semaphore, sem_log >>
    /\ UNCHANGED << harnessVars, bootVars, sharedVars, consumerVars >>

\* osMutexWait(sensor_buffer_mutex, osWaitForever); the loop starts at i = 0
ProducerLock ==
    /\ ppc = "lock"
    /\ osMutexWait_Ready(sensor_buffer_mutex)
    /\ sensor_buffer_mutex' = sensor_buffer_mutex \cup {"producer"}
    /\ access_log' = Record(access_log, "batch_begin")
    /\ ppc' = "sample"
    /\ i' = 0
    /\ p_events' = Append(p_events, "lock")
    /\ UNCHANGED << sensor_data, push_ret, push_log >>
    /\ UNCHANGED << producer_semaphore, consumer_semaphore, sem_log >>
    /\ UNCHANGED << harnessVars, bootVars, sharedVars, consumerVars >>

\* The mutex released at the end of every iteration and not held across osDelay.
ProducerSample_ReleasesEachIteration ==
    /\ ppc = "sample"
    /\ i < BATCH_SIZE
    /\ \E b1 \in ReceivedBytes(PIR_I2C_ADDRESS),
          b2 \in ReceivedBytes(HUMIDITY_AND_HEAT_I2C_ADDRESS),
          b3 \in ReceivedBytes(LDR_I2C_ADDRESS) :
         LET data == SensorData(i2c_read_sensor_data(b1),
                                i2c_read_sensor_data(b2),
                                i2c_read_sensor_data(b3))
             r == PushWithRecovery(sensor_buffer, buffer_head, buffer_tail, data)
         IN  /\ sensor_data' = data
             /\ sensor_buffer' = r.sensor_buffer
             /\ buffer_head' = r.buffer_head
             /\ push_ret' = IF r.first THEN << TRUE >> ELSE r.retry
             /\ push_log' = Record(push_log,
                                   [data |-> data, first |-> r.first, retry |-> r.retry])
    /\ i' = i + 1
    /\ p_events' = Append(p_events, "sample")
    /\ UNCHANGED << ppc, buffer_tail >>
    /\ sensor_buffer_mutex' = sensor_buffer_mutex \ {"producer"}
    /\ UNCHANGED << producer_semaphore, consumer_semaphore, access_log, sem_log >>
    /\ UNCHANGED << harnessVars, bootVars, consumerVars >>

\* The full-buffer branch advancing buffer_tail (dropping the oldest reading)
\* before the second push.
ProducerSample_AdvancesTail ==
    /\ ppc = "sample"
    /\ i < BATCH_SIZE
    /\ \E b1 \in ReceivedBytes(PIR_I2C_ADDRESS),
          b2 \in ReceivedBytes(HUMIDITY_AND_HEAT_I2C_ADDRESS),
          b3 \in ReceivedBytes(LDR_I2C_ADDRESS) :
         LET data == SensorData(i2c_read_sensor_data(b1),
                                i2c_read_sensor_data(b2),
                                i2c_read_sensor_data(b3))
             full == (buffer_head + 1) % BUFFER_SIZE = buffer_tail
             tail == IF full THEN (buffer_tail + 1) % BUFFER_SIZE ELSE buffer_tail
             r == PushWithRecovery(sensor_buffer, buffer_head, tail, data)
         IN  /\ sensor_data' = data
             /\ sensor_buffer' = r.sensor_buffer
             /\ buffer_head' = r.buffer_head
             /\ buffer_tail' = tail
             /\ push_ret' = IF r.first THEN << TRUE >> ELSE r.retry
             /\ push_log' = Record(push_log,
                                   [data |-> data, first |-> r.first, retry |-> r.retry])
    /\ i' = i + 1
    /\ p_events' = Append(p_events, "sample")
    /\ UNCHANGED ppc
    /\ UNCHANGED << producer_semaphore, consumer_semaphore, sensor_buffer_mutex,
                    access_log, sem_log >>
    /\ UNCHANGED << harnessVars, bootVars, consumerVars >>

\* One iteration: osDelay, three sensor reads, push with the full-buffer branch
ProducerSample ==
    /\ ppc = "sample"
    /\ i < BATCH_SIZE
    /\ \E b1 \in ReceivedBytes(PIR_I2C_ADDRESS),
          b2 \in ReceivedBytes(HUMIDITY_AND_HEAT_I2C_ADDRESS),
          b3 \in ReceivedBytes(LDR_I2C_ADDRESS) :
         LET data == SensorData(i2c_read_sensor_data(b1),
                                i2c_read_sensor_data(b2),
                                i2c_read_sensor_data(b3))
             r == PushWithRecovery(sensor_buffer, buffer_head, buffer_tail, data)
         IN  /\ sensor_data' = data
             /\ sensor_buffer' = r.sensor_buffer
             /\ buffer_head' = r.buffer_head
             /\ push_ret' = IF r.first THEN << TRUE >> ELSE r.retry
             /\ push_log' = Record(push_log,
                                   [data |-> data, first |-> r.first, retry |-> r.retry])
    /\ i' = i + 1
    /\ p_events' = Append(p_events, "sample")
    /\ UNCHANGED << ppc, buffer_tail >>
    /\ UNCHANGED << producer_semaphore, consumer_semaphore, sensor_buffer_mutex,
                    access_log, sem_log >>
    /\ UNCHANGED << harnessVars, bootVars, consumerVars >>

\* The consumer signalled before the mutex is released (lines 143 and 146 swapped).
ProducerRelease_GiveFirst ==
    /\ ppc = "sample"
    /\ i >= BATCH_SIZE
    /\ consumer_semaphore' = xSemaphoreGive(consumer_semaphore)
    /\ sem_log' = Record(sem_log, SemEvent("give", "consumer", "producer",
                                           consumer_semaphore, consumer_semaphore'))
    /\ sensor_buffer_mutex' = sensor_buffer_mutex \ {"producer"}
    /\ access_log' = Record(access_log, "batch_end")
    /\ ppc' = "take_sem"
    /\ p_events' = p_events \o << "give", "release" >>
    /\ UNCHANGED << i, sensor_data, push_ret, push_log >>
    /\ UNCHANGED << producer_semaphore >>
    /\ UNCHANGED << harnessVars, bootVars, sharedVars, consumerVars >>

\* loop exit, osMutexRelease(sensor_buffer_mutex)
ProducerRelease ==
    /\ ppc = "sample"
    /\ i >= BATCH_SIZE
    /\ sensor_buffer_mutex' = sensor_buffer_mutex \ {"producer"}
    /\ access_log' = Record(access_log, "batch_end")
    /\ ppc' = "give"
    /\ p_events' = Append(p_events, "release")
    /\ UNCHANGED << i, sensor_data, push_ret, push_log >>
    /\ UNCHANGED << producer_semaphore, consumer_semaphore, sem_log >>
    /\ UNCHANGED << harnessVars, bootVars, sharedVars, consumerVars >>

\* The producer signalling itself instead of the consumer.
ProducerGive_OwnSemaphore ==
    /\ ppc = "give"
    /\ producer_semaphore' = xSemaphoreGive(producer_semaphore)
    /\ sem_log' = Record(sem_log, SemEvent("give", "producer", "producer",
                                           producer_semaphore, producer_semaphore'))
    /\ ppc' = "take_sem"
    /\ p_events' = Append(p_events, "give")
    /\ UNCHANGED << i, sensor_data, push_ret, push_log >>
    /\ UNCHANGED << consumer_semaphore, sensor_buffer_mutex, access_log >>
    /\ UNCHANGED << harnessVars, bootVars, sharedVars, consumerVars >>

\* xSemaphoreGive(consumer_semaphore), back to the top of while (1)
ProducerGive ==
    /\ ppc = "give"
    /\ consumer_semaphore' = xSemaphoreGive(consumer_semaphore)
    /\ sem_log' = Record(sem_log, SemEvent("give", "consumer", "producer",
                                           consumer_semaphore, consumer_semaphore'))
    /\ ppc' = "take_sem"
    /\ p_events' = Append(p_events, "give")
    /\ UNCHANGED << i, sensor_data, push_ret, push_log >>
    /\ UNCHANGED << producer_semaphore, sensor_buffer_mutex, access_log >>
    /\ UNCHANGED << harnessVars, bootVars, sharedVars, consumerVars >>

(* ------------------------------------------------------------------ *)
(* consumer_task (main.c:151-215)                                      *)
(* ------------------------------------------------------------------ *)

\* xSemaphoreTake(consumer_semaphore, portMAX_DELAY)
ConsumerTake ==
    /\ scheduler = "running"
    /\ cpc = "take_sem"
    /\ Takes("consumer") < MaxBatches
    /\ xSemaphoreTake_Ready(consumer_semaphore)
    /\ consumer_semaphore' = consumer_semaphore - 1
    /\ sem_log' = Record(sem_log, SemEvent("take", "consumer", "consumer",
                                           consumer_semaphore, consumer_semaphore'))
    /\ cpc' = "lock"
    /\ c_events' = << "take" >>
    /\ UNCHANGED << ci, pir_data, humidity_and_heat_data, ldr_data,
                    filtered_data, uart_tx, snapshot >>
    /\ UNCHANGED << producer_semaphore, sensor_buffer_mutex, access_log >>
    /\ UNCHANGED << harnessVars, bootVars, sharedVars, producerVars >>

\* osMutexWait(sensor_buffer_mutex, osWaitForever); the copy loop starts at 0
ConsumerLock ==
    /\ cpc = "lock"
    /\ osMutexWait_Ready(sensor_buffer_mutex)
    /\ sensor_buffer_mutex' = sensor_buffer_mutex \cup {"consumer"}
    /\ access_log' = Record(access_log, "copy_begin")
    /\ cpc' = "copy"
    /\ ci' = 0
    /\ c_events' = Append(c_events, "lock")
    /\ UNCHANGED << pir_data, humidity_and_heat_data, ldr_data,
                    filtered_data, uart_tx, snapshot >>
    /\ UNCHANGED << producer_semaphore, consumer_semaphore, sem_log >>
    /\ UNCHANGED << harnessVars, bootVars, sharedVars, producerVars >>

\* The copy loop taking only the slots from tail up to head and zero elsewhere.
ConsumerCopy_ValidRegionOnly ==
    /\ cpc = "copy"
    /\ ci < BUFFER_SIZE
    /\ LET valid == ci < (buffer_head - buffer_tail) % BUFFER_SIZE
           slot == sensor_buffer[(buffer_tail + ci) % BUFFER_SIZE]
       IN  /\ pir_data' = [pir_data EXCEPT ![ci] = IF valid THEN slot.PIR ELSE 0]
           /\ humidity_and_heat_data' =
                  [humidity_and_heat_data EXCEPT
                      ![ci] = IF valid THEN slot.humidity_and_heat ELSE 0]
           /\ ldr_data' = [ldr_data EXCEPT ![ci] = IF valid THEN slot.LDR ELSE 0]
    /\ ci' = ci + 1
    /\ c_events' = Append(c_events, "copy")
    /\ UNCHANGED << cpc, filtered_data, uart_tx, snapshot >>
    /\ UNCHANGED << producer_semaphore, consumer_semaphore, sensor_buffer_mutex,
                    access_log, sem_log >>
    /\ UNCHANGED << harnessVars, bootVars, sharedVars, producerVars >>

\* The copy loop reading one slot ahead.
ConsumerCopy_OffByOne ==
    /\ cpc = "copy"
    /\ ci < BUFFER_SIZE
    /\ pir_data' = [pir_data EXCEPT ![ci] = sensor_buffer[(ci + 1) % BUFFER_SIZE].PIR]
    /\ humidity_and_heat_data' =
           [humidity_and_heat_data EXCEPT
               ![ci] = sensor_buffer[(ci + 1) % BUFFER_SIZE].humidity_and_heat]
    /\ ldr_data' = [ldr_data EXCEPT ![ci] = sensor_buffer[(ci + 1) % BUFFER_SIZE].LDR]
    /\ ci' = ci + 1
    /\ c_events' = Append(c_events, "copy")
    /\ UNCHANGED << cpc, filtered_data, uart_tx, snapshot >>
    /\ UNCHANGED << producer_semaphore, consumer_semaphore, sensor_buffer_mutex,
                    access_log, sem_log >>
    /\ UNCHANGED << harnessVars, bootVars, sharedVars, producerVars >>

\* one iteration of the copy loop (main.c:171-175)
ConsumerCopy ==
    /\ cpc = "copy"
    /\ ci < BUFFER_SIZE
    /\ pir_data' = [pir_data EXCEPT ![ci] = sensor_buffer[ci].PIR]
    /\ humidity_and_heat_data' =
           [humidity_and_heat_data EXCEPT ![ci] = sensor_buffer[ci].humidity_and_heat]
    /\ ldr_data' = [ldr_data EXCEPT ![ci] = sensor_buffer[ci].LDR]
    /\ ci' = ci + 1
    /\ c_events' = Append(c_events, "copy")
    /\ UNCHANGED << cpc, filtered_data, uart_tx, snapshot >>
    /\ UNCHANGED << producer_semaphore, consumer_semaphore, sensor_buffer_mutex,
                    access_log, sem_log >>
    /\ UNCHANGED << harnessVars, bootVars, sharedVars, producerVars >>

\* loop exit, osMutexRelease(sensor_buffer_mutex)
ConsumerRelease ==
    /\ cpc = "copy"
    /\ ci >= BUFFER_SIZE
    /\ sensor_buffer_mutex' = sensor_buffer_mutex \ {"consumer"}
    /\ access_log' = Record(access_log, "copy_end")
    /\ snapshot' = sensor_buffer
    /\ cpc' = "give"
    /\ c_events' = Append(c_events, "release")
    /\ UNCHANGED << ci, pir_data, humidity_and_heat_data, ldr_data,
                    filtered_data, uart_tx >>
    /\ UNCHANGED << producer_semaphore, consumer_semaphore, sem_log >>
    /\ UNCHANGED << harnessVars, bootVars, sharedVars, producerVars >>

\* The give left out at this point of the cycle.
ConsumerGive_Skipped ==
    /\ cpc = "give"
    /\ cpc' = "compute"
    /\ UNCHANGED << ci, pir_data, humidity_and_heat_data, ldr_data,
                    filtered_data, uart_tx, snapshot, c_events >>
    /\ UNCHANGED << producer_semaphore, consumer_semaphore, sensor_buffer_mutex,
                    access_log, sem_log >>
    /\ UNCHANGED << harnessVars, bootVars, sharedVars, producerVars >>

\* xSemaphoreGive(producer_semaphore)
ConsumerGive ==
    /\ cpc = "give"
    /\ producer_semaphore' = xSemaphoreGive(producer_semaphore)
    /\ sem_log' = Record(sem_log, SemEvent("give", "producer", "consumer",
                                           producer_semaphore, producer_semaphore'))
    /\ cpc' = "compute"
    /\ c_events' = Append(c_events, "give")
    /\ UNCHANGED << ci, pir_data, humidity_and_heat_data, ldr_data,
                    filtered_data, uart_tx, snapshot >>
    /\ UNCHANGED << consumer_semaphore, sensor_buffer_mutex, access_log >>
    /\ UNCHANGED << harnessVars, bootVars, sharedVars, producerVars >>

Column(buf, field) == [s \in Slots |-> buf[s][field]]

\* The statistics computed from the shared buffer instead of the local copies.
ConsumerCompute_ReadsShared ==
    /\ cpc = "compute"
    /\ filtered_data' = Summarize(Column(sensor_buffer, "PIR"),
                                  Column(sensor_buffer, "humidity_and_heat"),
                                  Column(sensor_buffer, "LDR"))
    /\ pir_data' = calculate_median(pir_data, BUFFER_SIZE).data
    /\ humidity_and_heat_data' =
           calculate_median(humidity_and_heat_data, BUFFER_SIZE).data
    /\ ldr_data' = calculate_median(ldr_data, BUFFER_SIZE).data
    /\ cpc' = "transmit"
    /\ c_events' = Append(c_events, "compute")
    /\ UNCHANGED << ci, uart_tx, snapshot >>
    /\ UNCHANGED << producer_semaphore, consumer_semaphore, sensor_buffer_mutex,
                    access_log, sem_log >>
    /\ UNCHANGED << harnessVars, bootVars, sharedVars, producerVars >>

\* the twelve statistics and the packing (main.c:182-210); each median call
\* leaves its array sorted
ConsumerCompute ==
    /\ cpc = "compute"
    /\ filtered_data' = Summarize(pir_data, humidity_and_heat_data, ldr_data)
    /\ pir_data' = calculate_median(pir_data, BUFFER_SIZE).data
    /\ humidity_and_heat_data' =
           calculate_median(humidity_and_heat_data, BUFFER_SIZE).data
    /\ ldr_data' = calculate_median(ldr_data, BUFFER_SIZE).data
    /\ cpc' = "transmit"
    /\ c_events' = Append(c_events, "compute")
    /\ UNCHANGED << ci, uart_tx, snapshot >>
    /\ UNCHANGED << producer_semaphore, consumer_semaphore, sensor_buffer_mutex,
                    access_log, sem_log >>
    /\ UNCHANGED << harnessVars, bootVars, sharedVars, producerVars >>

\* broadcast_ble(filtered_data), back to the top of while (1)
ConsumerTransmit ==
    /\ cpc = "transmit"
    /\ uart_tx' = Record(uart_tx, broadcast_ble(filtered_data))
    /\ cpc' = "take_sem"
    /\ c_events' = Append(c_events, "transmit")
    /\ UNCHANGED << ci, pir_data, humidity_and_heat_data, ldr_data,
                    filtered_data, snapshot >>
    /\ UNCHANGED << producer_semaphore, consumer_semaphore, sensor_buffer_mutex,
                    access_log, sem_log >>
    /\ UNCHANGED << harnessVars, bootVars, sharedVars, producerVars >>

Next ==
    \/ BootGive
    \/ StartScheduler
    \/ ProducerTake
    \/ ProducerLock
    \/ ProducerSample
    \/ ProducerRelease
    \/ ProducerGive
    \/ ConsumerTake
    \/ ConsumerLock
    \/ ConsumerCopy
    \/ ConsumerRelease
    \/ ConsumerGive
    \/ ConsumerCompute
    \/ ConsumerTransmit

Spec == Init /\ [][Next]_vars

(* ------------------------------------------------------------------ *)
(* The same program running without end: no history is kept, so the    *)
(* run is not cut short, and each task that can take a step does so.   *)
(* ------------------------------------------------------------------ *)

InitLive ==
    /\ TasksCreated
    /\ history = "off"
    /\ HarnessIdle

ProducerNext ==
    ProducerTake \/ ProducerLock \/ ProducerSample \/ ProducerRelease \/ ProducerGive

ConsumerNext ==
    \/ ConsumerTake \/ ConsumerLock \/ ConsumerCopy \/ ConsumerRelease
    \/ ConsumerGive \/ ConsumerCompute \/ ConsumerTransmit

\* both tasks have priority 1 and the scheduler slices time between ready
\* tasks of equal priority (main.c:108-112); delays, reads and transmits return
SpecLive ==
    /\ InitLive
    /\ [][Next]_vars
    /\ WF_vars(StartScheduler)
    /\ WF_vars(ProducerNext)
    /\ WF_vars(ConsumerNext)

(* ------------------------------------------------------------------ *)
(* buffer_push on its own: every head, tail and content, pushes only   *)
(* ------------------------------------------------------------------ *)

StoredReadings == Readings \cup {ZeroReading}

InitBuffer ==
    /\ scheduler = "boot"
    /\ boot_given = 0
    /\ producer_semaphore = xSemaphoreCreateBinary
    /\ consumer_semaphore = xSemaphoreCreateBinary
    /\ sensor_buffer_mutex = {}
    /\ sensor_buffer \in [Slots -> StoredReadings]
    /\ buffer_head \in Slots
    /\ buffer_tail \in Slots
    /\ ppc = "take_sem"
    /\ i = 0
    /\ sensor_data = ZeroReading
    /\ cpc = "take_sem"
    /\ ci = 0
    /\ pir_data = [s \in Slots |-> 0]
    /\ humidity_and_heat_data = [s \in Slots |-> 0]
    /\ ldr_data = [s \in Slots |-> 0]
    /\ filtered_data = NoSummary
    /\ uart_tx = << >>
    /\ push_ret = << >>
    /\ push_log = << >>
    /\ access_log = << >>
    /\ sem_log = << >>
    /\ p_events = << >>
    /\ c_events = << >>
    /\ snapshot = [s \in Slots |-> ZeroReading]
    /\ history = "on"
    /\ HarnessIdle

\* a call buffer_push(data)
PushCall ==
    \E data \in Readings :
        LET r == buffer_push(sensor_buffer, buffer_head, buffer_tail, data) IN
        /\ sensor_data' = data
        /\ sensor_buffer' = r.sensor_buffer
        /\ buffer_head' = r.buffer_head
        /\ push_ret' = << r.ret >>
        /\ UNCHANGED << buffer_tail, ppc, i, p_events, push_log >>
        /\ UNCHANGED << producer_semaphore, consumer_semaphore, sensor_buffer_mutex,
                        access_log, sem_log >>
        /\ UNCHANGED << harnessVars, bootVars, consumerVars >>

NextBuffer == PushCall

SpecBuffer == InitBuffer /\ [][NextBuffer]_vars

(* ------------------------------------------------------------------ *)
(* One iteration of the producer's loop on its own, from every buffer  *)
(* content and head, with the status of each receive observed.         *)
(* ------------------------------------------------------------------ *)

InitSample ==
    /\ scheduler = "running"
    /\ boot_given = 1
    /\ producer_semaphore = 0
    /\ consumer_semaphore = 0
    /\ sensor_buffer_mutex = {"producer"}
    /\ sensor_buffer \in [Slots -> StoredReadings]
    /\ buffer_head \in Slots
    /\ buffer_tail = 0
    /\ ppc = "sample"
    /\ i \in 0 .. (BATCH_SIZE - 1)
    /\ sensor_data = ZeroReading
    /\ cpc = "take_sem"
    /\ ci = 0
    /\ pir_data = [s \in Slots |-> 0]
    /\ humidity_and_heat_data = [s \in Slots |-> 0]
    /\ ldr_data = [s \in Slots |-> 0]
    /\ filtered_data = NoSummary
    /\ uart_tx = << >>
    /\ push_ret = << >>
    /\ push_log = << >>
    /\ access_log = << >>
    /\ sem_log = << >>
    /\ p_events = << >>
    /\ c_events = << >>
    /\ snapshot = sensor_buffer
    /\ history = "on"
    /\ HarnessIdle

\* the body of the for loop (main.c:128-140) with the three statuses kept
SampleCall ==
    /\ ppc = "sample"
    /\ hal_status = << >>
    /\ \E o1 \in HAL_I2C_Master_Receive(PIR_I2C_ADDRESS),
          o2 \in HAL_I2C_Master_Receive(HUMIDITY_AND_HEAT_I2C_ADDRESS),
          o3 \in HAL_I2C_Master_Receive(LDR_I2C_ADDRESS) :
         LET data == SensorData(i2c_read_sensor_data(o1.data),
                                i2c_read_sensor_data(o2.data),
                                i2c_read_sensor_data(o3.data))
             r == PushWithRecovery(sensor_buffer, buffer_head, buffer_tail, data)
         IN  /\ hal_status' = << << o1.status, o2.status, o3.status >> >>
             /\ sensor_data' = data
             /\ sensor_buffer' = r.sensor_buffer
             /\ buffer_head' = r.buffer_head
             /\ push_ret' = IF r.first THEN << TRUE >> ELSE r.retry
             /\ push_log' = Record(push_log,
                                   [data |-> data, first |-> r.first, retry |-> r.retry])
    /\ i' = i + 1
    /\ p_events' = Append(p_events, "sample")
    /\ UNCHANGED << ppc, buffer_tail >>
    /\ UNCHANGED << history, stat_count, stat_input, stat_data, stat_result >>
    /\ UNCHANGED << producer_semaphore, consumer_semaphore, sensor_buffer_mutex,
                    access_log, sem_log >>
    /\ UNCHANGED << bootVars, consumerVars >>

NextSample == SampleCall

SpecSample == InitSample /\ [][NextSample]_vars

(* ------------------------------------------------------------------ *)
(* The four statistics called on one array, in the order the consumer  *)
(* calls them (main.c:182-185): every array up to MaxLen elements over *)
(* 0..MaxValue, the empty one included.                                *)
(* ------------------------------------------------------------------ *)

MaxLen == 5
MaxValue == 5

\* float data[] of count elements
Arrays(count) == [0 .. (count - 1) -> 0 .. MaxValue]

\* what a read outside the array can find
Garbage == 0 .. MaxValue

\* The memory the functions index: the caller's array; with count = 0 the
\* elements they read, data[0] and data[(count - 1) / 2], lie outside it.
MemoryAround(data, count) ==
    IF count = 0 THEN [{0, LowerMiddle(count)} -> Garbage] ELSE {data}

InitStats ==
    /\ TasksCreated
    /\ history = "on"
    /\ hal_status = << >>
    /\ stat_count \in 0 .. MaxLen
    /\ stat_input \in Arrays(stat_count)
    /\ stat_data = stat_input
    /\ stat_result = << >>

\* std_dev, max, min, median of the same array, as in consumer_task; a read
\* outside the array returns what is there or faults
StatsCall ==
    /\ stat_result = << >>
    /\ \/ \E mem \in MemoryAround(stat_data, stat_count) :
            LET std_dev == calculate_std_dev(mem, stat_count)
                max == calculate_max(mem, stat_count)
                min == calculate_min(mem, stat_count)
                median == calculate_median(mem, stat_count)
            IN  /\ stat_result' = << [outcome |-> "returned",
                                      std_dev |-> std_dev, max |-> max,
                                      min |-> min, median |-> median.value] >>
                /\ stat_data' = [k \in 0 .. (stat_count - 1) |-> median.data[k]]
       \/ /\ stat_count = 0
          /\ stat_result' = << [outcome |-> "HardFault"] >>
          /\ stat_data' = stat_data
    /\ UNCHANGED << history, hal_status, stat_count, stat_input >>
    /\ UNCHANGED << producer_semaphore, consumer_semaphore, sensor_buffer_mutex,
                    access_log, sem_log >>
    /\ UNCHANGED << bootVars, sharedVars, producerVars, consumerVars >>

NextStats == StatsCall

SpecStats == InitStats /\ [][NextStats]_vars

(* ------------------------------------------------------------------ *)
(* Properties                                                          *)
(* ------------------------------------------------------------------ *)

IsPrefix(s, t) == Len(s) <= Len(t) /\ \A k \in 1 .. Len(s) : s[k] = t[k]

\* the shared buffer is read or written by this step of the producer
ProducerAccess == sharedVars' # sharedVars \/ push_log' # push_log

\* the shared buffer is read by this step of the consumer
ConsumerAccess == cpc = "copy" /\ ci' # ci

\* C1: at most one task holds sensor_buffer_mutex at any time; every step in
\* which the producer pushes (reads or writes sensor_buffer, buffer_head,
\* buffer_tail) and every step in which the consumer copies a slot out is
\* taken by a task that holds the mutex while the other does not; so the
\* producer is never inside its batch while the consumer is inside its copy.
C1_MutualExclusion ==
    /\ [](/\ Cardinality(sensor_buffer_mutex) <= 1
          /\ (ppc = "sample" => "producer" \in sensor_buffer_mutex)
          /\ (cpc = "copy" => "consumer" \in sensor_buffer_mutex)
          /\ ~(ppc = "sample" /\ cpc = "copy"))
    /\ [][ProducerAccess => sensor_buffer_mutex = {"producer"}]_vars
    /\ [][ConsumerAccess => sensor_buffer_mutex = {"consumer"}]_vars

\* the consumer is in the middle of a copy-out of a buffer the producer has filled
C1_Witness ==
    /\ cpc = "copy" /\ ci > 0 /\ ci < BUFFER_SIZE
    /\ sensor_buffer_mutex = {"consumer"}
    /\ Len(push_log) >= BATCH_SIZE

\* C2: with no signal at boot (both semaphores created empty and never given
\* by main), the producer stays at its first wait on producer_semaphore and
\* the consumer at its first wait on consumer_semaphore: no semaphore is
\* taken, nothing is pushed, no copy-out begins, nothing is transmitted, and
\* once the scheduler runs no step is possible at all.
C2_StartupDeadlock ==
    boot_given = 0 =>
        /\ ppc = "take_sem" /\ cpc = "take_sem"
        /\ sem_log = << >>
        /\ push_log = << >>
        /\ access_log = << >>
        /\ uart_tx = << >>
        /\ sensor_buffer = [s \in Slots |-> ZeroReading]
        /\ (scheduler = "running" => ~ENABLED Next)

\* the scheduler runs, nobody signalled, both tasks are blocked
C2_Witness ==
    /\ scheduler = "running" /\ boot_given = 0
    /\ ~ENABLED ProducerTake /\ ~ENABLED ConsumerTake

\* the k-th phase of the alternation batch, copy-out, batch, copy-out, ...
AlternationEvent(k) ==
    CASE (k - 1) % 4 = 0 -> "batch_begin"
      [] (k - 1) % 4 = 1 -> "batch_end"
      [] (k - 1) % 4 = 2 -> "copy_begin"
      [] (k - 1) % 4 = 3 -> "copy_end"

\* C3: with producer_semaphore signalled exactly once at boot, the lock
\* acquisitions and releases of the two buffer-access phases occur in the
\* order batch begins, batch ends, copy-out begins, copy-out ends, batch
\* begins, ...: the k-th copy-out begins after the k-th batch released the
\* lock and the (k+1)-th batch begins after the k-th copy-out released it.
C3_StrictAlternation ==
    boot_given = 1 =>
        /\ \A k \in DOMAIN access_log : access_log[k] = AlternationEvent(k)
        /\ CopiesStarted <= BatchesDone
        /\ BatchesStarted <= CopiesDone + 1

\* a second batch has begun after the first copy-out
C3_Witness ==
    /\ boot_given = 1
    /\ BatchesStarted = 2 /\ CopiesDone = 1
    /\ ppc = "sample" /\ i > 0

\* C4: buffer_push from any head and tail in 0..N-1: when (head+1) mod N is
\* not tail the reading is stored at slot head, head becomes (head+1) mod N,
\* tail and every other slot are unchanged and the result is true; when
\* (head+1) mod N is tail the result is false and head, tail and every slot
\* are unchanged.
C4_PushContract ==
    [][ /\ sensor_data' \in Readings
        /\ IF (buffer_head + 1) % BUFFER_SIZE # buffer_tail
           THEN /\ push_ret' = << TRUE >>
                /\ sensor_buffer' = [sensor_buffer EXCEPT ![buffer_head] = sensor_data']
                /\ buffer_head' = (buffer_head + 1) % BUFFER_SIZE
                /\ buffer_tail' = buffer_tail
           ELSE /\ push_ret' = << FALSE >>
                /\ sensor_buffer' = sensor_buffer
                /\ buffer_head' = buffer_head
                /\ buffer_tail' = buffer_tail ]_vars

\* a push was refused on a full buffer whose indices have wrapped
C4_Witness ==
    /\ push_ret = << FALSE >>
    /\ sensor_data \in Readings
    /\ buffer_tail > 0
    /\ (buffer_head + 1) % BUFFER_SIZE = buffer_tail

\* C5: from the empty initial buffer, as long as k <= N-1 readings have been
\* pushed, every push returned true, slot j holds the (j+1)-th pushed reading
\* for j < k, (head - tail) mod N = k, and the slots the consumer has copied
\* out so far hold those readings in the same order.
C5_InsertionOrder ==
    LET k == Len(push_log) IN
    k <= BUFFER_SIZE - 1 =>
        /\ \A j \in 1 .. k : push_log[j].first = TRUE
        /\ \A j \in 1 .. k : sensor_buffer[j - 1] = push_log[j].data
        /\ (buffer_head - buffer_tail) % BUFFER_SIZE = k
        /\ cpc = "copy" =>
              \A j \in 0 .. (ci - 1) :
                  j < k => /\ pir_data[j] = push_log[j + 1].data.PIR
                           /\ humidity_and_heat_data[j] =
                                  push_log[j + 1].data.humidity_and_heat
                           /\ ldr_data[j] = push_log[j + 1].data.LDR

\* a complete snapshot of a buffer holding at most N-1 readings, two of them different
C5_Witness ==
    /\ cpc = "copy" /\ ci = BUFFER_SIZE
    /\ Len(push_log) >= 2 /\ Len(push_log) <= BUFFER_SIZE - 1
    /\ push_log[1].data # push_log[2].data
    /\ pir_data[0] # pir_data[1]

\* the readings from tail up to (not including) head, oldest first
LogicalRegion(buf, head, tail) ==
    [j \in 1 .. ((head - tail) % BUFFER_SIZE) |-> buf[(tail + j - 1) % BUFFER_SIZE]]

\* this step is a producer iteration whose first buffer_push returns false
FullBufferIteration ==
    /\ ppc = "sample"
    /\ i' = i + 1
    /\ (buffer_head + 1) % BUFFER_SIZE = buffer_tail

\* C6: whenever buffer_push returns false in a batch, the recovery drops only
\* the oldest buffered reading: afterwards the region from tail up to head
\* holds the previously buffered readings except the oldest, in order,
\* followed by the new reading.
C6_DropOldest ==
    [][FullBufferIteration =>
          LogicalRegion(sensor_buffer', buffer_head', buffer_tail')
              = Append(Tail(LogicalRegion(sensor_buffer, buffer_head, buffer_tail)),
                       sensor_data')]_vars

\* what the recovery does: the region from tail up to head afterwards holds
\* the new reading alone, stored over the oldest slot
C6_RegionCollapses ==
    [][FullBufferIteration =>
          /\ LogicalRegion(sensor_buffer', buffer_head', buffer_tail') = << sensor_data' >>
          /\ sensor_buffer' = [sensor_buffer EXCEPT ![buffer_tail] = sensor_data']]_vars

\* the pass of the producer's loop: take, lock, the samples, release, give
ExpectedBatch ==
    << "take", "lock" >> \o [k \in 1 .. BATCH_SIZE |-> "sample"] \o << "release", "give" >>

ProducerGives ==
    Cardinality({k \in DOMAIN sem_log :
                    sem_log[k].op = "give" /\ sem_log[k].by = "producer"})

\* C7: in each pass of its loop the producer gives consumer_semaphore exactly
\* once, after all sample iterations of the batch and after releasing the
\* mutex: its events in a pass are take, lock, the samples, release, give in
\* this order, every give it issues is on consumer_semaphore, and the number
\* of its gives equals the number of batches it has finished (less the one
\* it is about to signal).
C7_ProducerSignalling ==
    /\ IsPrefix(p_events, ExpectedBatch)
    /\ \A k \in DOMAIN sem_log :
          (sem_log[k].by = "producer" /\ sem_log[k].op = "give")
              => sem_log[k].sem = "consumer"
    /\ ProducerGives = BatchesDone - (IF ppc = "give" THEN 1 ELSE 0)
    /\ (ppc = "give" => /\ i = BATCH_SIZE
                        /\ "producer" \notin sensor_buffer_mutex
                        /\ p_events[Len(p_events)] = "release")

\* the producer has just signalled after its second batch
C7_Witness ==
    /\ p_events = ExpectedBatch
    /\ ProducerGives = 2
    /\ BatchesDone = 2
    /\ ppc = "take_sem"

\* the consumer's cycle
ExpectedCycle ==
    << "take", "lock" >> \o [k \in 1 .. BUFFER_SIZE |-> "copy"]
        \o << "release", "give", "compute", "transmit" >>

ConsumerGives ==
    Cardinality({k \in DOMAIN sem_log :
                    sem_log[k].op = "give" /\ sem_log[k].by = "consumer"})

\* C8: the events of a consumer cycle are take consumer_semaphore, acquire
\* the mutex, the copy-out, release the mutex, give producer_semaphore,
\* compute, transmit, in this order; producer_semaphore is given once per
\* cycle, with the mutex released, before the statistics of the cycle are
\* computed and before the cycle transmits.
C8_ConsumerOrder ==
    /\ IsPrefix(c_events, ExpectedCycle)
    /\ \A k \in DOMAIN sem_log :
          (sem_log[k].by = "consumer" /\ sem_log[k].op = "give")
              => sem_log[k].sem = "producer"
    /\ ConsumerGives = CopiesDone - (IF cpc = "give" THEN 1 ELSE 0)
    /\ (cpc = "give" => /\ "consumer" \notin sensor_buffer_mutex
                        /\ Len(uart_tx) = ConsumerGives)
    /\ (cpc = "compute" => Len(uart_tx) = ConsumerGives - 1)
    /\ (cpc = "transmit" => Len(uart_tx) = ConsumerGives - 1)
    /\ (cpc \in {"take_sem", "lock", "copy"} => Len(uart_tx) = ConsumerGives)

\* a second cycle has run to its end
C8_Witness ==
    /\ c_events = ExpectedCycle
    /\ ConsumerGives = 2
    /\ Len(uart_tx) = 2
    /\ cpc = "take_sem"

\* the producer is inside a batch while the consumer computes or transmits
Overlap ==
    /\ boot_given = 1
    /\ ppc = "sample"
    /\ cpc \in {"compute", "transmit"}

\* C9: with one signal at boot, whenever the producer is inside a batch
\* while the consumer is in its compute or transmit phase, the producer
\* alone holds the mutex, and what the consumer computes from and transmits
\* is the content the buffer had when the consumer released the mutex,
\* whatever the producer has pushed since.
C9_OverlapHarmless ==
    Overlap =>
        /\ sensor_buffer_mutex = {"producer"}
        /\ (cpc = "compute" =>
               /\ pir_data = Column(snapshot, "PIR")
               /\ humidity_and_heat_data = Column(snapshot, "humidity_and_heat")
               /\ ldr_data = Column(snapshot, "LDR"))
        /\ (cpc = "transmit" =>
               filtered_data = Summarize(Column(snapshot, "PIR"),
                                         Column(snapshot, "humidity_and_heat"),
                                         Column(snapshot, "LDR")))

\* the overlap, with the buffer already changed by the running batch
C9_Witness ==
    /\ Overlap
    /\ cpc = "transmit"
    /\ i > 0
    /\ sensor_buffer # snapshot
    /\ Summarize(Column(sensor_buffer, "PIR"),
                 Column(sensor_buffer, "humidity_and_heat"),
                 Column(sensor_buffer, "LDR")) # filtered_data

SemCount(sem) == IF sem = "producer" THEN producer_semaphore ELSE consumer_semaphore

\* the last operation logged on a semaphore, "none" when there is none
LastOp(sem) ==
    LET on == {k \in DOMAIN sem_log : sem_log[k].sem = sem} IN
    IF on = {} THEN "none"
    ELSE sem_log[CHOOSE k \in on : \A m \in on : m <= k].op

\* C10: each semaphore holds at most one pending wake-up; every give leaves
\* exactly one pending, also when one was pending already; every take
\* returns only from one pending wake-up and leaves none, so the next take
\* of that semaphore is blocked until a new give.
C10_BinaryHandshake ==
    /\ producer_semaphore \in {0, 1}
    /\ consumer_semaphore \in {0, 1}
    /\ \A k \in DOMAIN sem_log :
          /\ sem_log[k].op = "give" => sem_log[k].after = 1
          /\ sem_log[k].op = "take" => sem_log[k].before = 1 /\ sem_log[k].after = 0
    /\ \A sem \in {"producer", "consumer"} :
          /\ (Gives(sem) > 0 /\ Takes(sem) = 0) => SemCount(sem) = 1
          /\ SemCount(sem) = (IF LastOp(sem) = "give" THEN 1 ELSE 0)
    /\ (producer_semaphore = 0 => ~ENABLED ProducerTake)
    /\ (consumer_semaphore = 0 => ~ENABLED ConsumerTake)

\* two gives before the first take left one wake-up: the first take returned
\* and the producer's second take is blocked
C10_Witness ==
    /\ boot_given = 2
    /\ Takes("producer") = 1
    /\ ConsumerGives = 0
    /\ ppc = "take_sem"
    /\ producer_semaphore = 0
    /\ ~ENABLED ProducerTake

\* the scheduler runs after exactly one signal at boot
Booted == scheduler = "running" /\ boot_given = 1

\* C11: with one signal at boot and both tasks scheduled fairly, the
\* producer begins a batch again and again without end, neither task stays
\* at one position forever, and every finished batch is followed by the
\* consumer cycle it signals, which runs to its transmit.
C11_Progress ==
    /\ <>[]Booted => []<>(ppc = "sample" /\ i = 0)
    /\ <>[]Booted => /\ []<>(ppc = "take_sem") /\ []<>(ppc = "give")
                     /\ []<>(cpc = "take_sem") /\ []<>(cpc = "transmit")
    /\ []((Booted /\ ppc = "give")
             => <>(cpc = "lock" /\ <>(cpc = "take_sem" /\ c_events = ExpectedCycle)))

\* in the run without end: the buffer has wrapped, the consumer has finished
\* a cycle and the producer is inside a later batch
C11_Witness ==
    /\ history = "off"
    /\ Booted
    /\ ppc = "sample" /\ i > 0
    /\ buffer_head < BATCH_SIZE
    /\ sensor_buffer[BUFFER_SIZE - 2] # ZeroReading
    /\ cpc = "take_sem" /\ c_events = ExpectedCycle

\* the twelve statistics of a buffer content in the order of the record:
\* PIR, humidity/heat, LDR, each as std-dev, max, min, median
KindStatistics(data) ==
    << calculate_std_dev(data, BUFFER_SIZE), calculate_max(data, BUFFER_SIZE),
       calculate_min(data, BUFFER_SIZE), calculate_median(data, BUFFER_SIZE).value >>

ExpectedFields(buf) ==
    KindStatistics(Column(buf, "PIR"))
        \o KindStatistics(Column(buf, "humidity_and_heat"))
        \o KindStatistics(Column(buf, "LDR"))

\* transmit calls the consumer has still to make for copy-outs it finished
TransmitsOwed == IF cpc \in {"give", "compute", "transmit"} THEN 1 ELSE 0

\* C12: each consumer cycle makes exactly one transmit call, after its
\* copy-out; every transmit carries exactly 48 bytes, four per field, and
\* the bytes are the twelve statistics of the copied buffer in the order PIR,
\* humidity/heat, LDR, each as std-dev, max, min, median.
C12_OneRecordPerCycle ==
    /\ [](Len(uart_tx) = CopiesDone - TransmitsOwed)
    /\ [][IsPrefix(uart_tx, uart_tx')]_vars
    /\ [][(cpc = "transmit" /\ cpc' # cpc)
            => \A expected \in {ExpectedFields(snapshot)} :
                 /\ Len(uart_tx') = Len(uart_tx) + 1
                 /\ Len(uart_tx'[Len(uart_tx')]) = 48
                 /\ \A f \in 1..12 : \A b \in 1..4 :
                       uart_tx'[Len(uart_tx')][4 * (f - 1) + b] = << expected[f], b >>]_vars

\* two cycles have transmitted different records, the second with PIR
\* readings that differ among themselves
C12_Witness ==
    /\ Len(uart_tx) = 2
    /\ cpc = "take_sem"
    /\ uart_tx[1] # uart_tx[2]
    /\ uart_tx[2][5] # uart_tx[2][9]
    /\ uart_tx[2][1][1].sqrt_of.num > 0

\* a <= b for rationals with positive denominators
RatLeq(a, b) == a.num * b.den <= b.num * a.den

\* a = b for rationals with positive denominators
RatEq(a, b) == a.num * b.den = b.num * a.den

\* the call on a non-empty array has returned
StatsReturned ==
    /\ stat_count >= 1
    /\ stat_result # << >>
    /\ stat_result[1].outcome = "returned"

\* C13: for every non-empty array, calculate_min <= calculate_median <=
\* calculate_max.
C13_MinMedianMax ==
    StatsReturned =>
        /\ RatLeq(stat_result[1].min, stat_result[1].median)
        /\ RatLeq(stat_result[1].median, stat_result[1].max)

\* an unsorted array of even length whose median lies strictly between
\* the minimum and the maximum and is not an element
C13_Witness ==
    /\ StatsReturned
    /\ stat_count = 4
    /\ stat_input = [k \in 0 .. 3 |-> << 4, 1, 5, 3 >>[k + 1]]
    /\ stat_result[1].min = Rat(1, 1)
    /\ stat_result[1].median = Rat(7, 2)
    /\ stat_result[1].max = Rat(5, 1)

\* the ascending sort of x[0 .. n-1], by rank: position k holds the value v
\* with fewer than k+1 elements below v and more than k elements up to v
AscendingSort(x, n) ==
    [k \in 0 .. (n - 1) |->
        CHOOSE v \in {x[j] : j \in 0 .. (n - 1)} :
            /\ Cardinality({j \in 0 .. (n - 1) : x[j] < v}) <= k
            /\ Cardinality({j \in 0 .. (n - 1) : x[j] <= v}) > k]

\* the reference median of x[0 .. n-1], n >= 1
ReferenceMedian(x, n) ==
    LET s == AscendingSort(x, n) IN
    IF n % 2 = 1 THEN Rat(s[n \div 2], 1)
    ELSE Rat(s[(n \div 2) - 1] + s[n \div 2], 2)

\* C14: for every array of length n >= 1, calculate_median returns the
\* reference median: the middle element of the ascending sort when n is odd,
\* the mean of its two central elements when n is even.
C14_MedianIsReference ==
    StatsReturned =>
        /\ RatEq(stat_result[1].median, ReferenceMedian(stat_input, stat_count))
        /\ (stat_count = 1 => stat_result[1].median = Rat(stat_input[0], 1))
        /\ (stat_input = [k \in 0 .. 4 |-> k + 1]
               => stat_result[1].median = Rat(3, 1))
        /\ (stat_input = [k \in 0 .. 1 |-> 2 * (k + 1)]
               => RatEq(stat_result[1].median, Rat(3, 1)))

\* an unsorted odd-length array with a repeated value
C14_Witness ==
    /\ StatsReturned
    /\ stat_input = [k \in 0 .. 4 |-> << 5, 2, 4, 2, 3 >>[k + 1]]
    /\ stat_result[1].median = Rat(3, 1)
    /\ stat_data = [k \in 0 .. 4 |-> << 2, 2, 3, 4, 5 >>[k + 1]]

\* the call with count = 0 is over
EmptyCallOver == stat_count = 0 /\ stat_result # << >>

\* the explicit failure the contract asks for
InvalidInput == [outcome |-> "InvalidInput"]

C15_EmptyReturnsValues ==
    EmptyCallOver =>
        /\ stat_result[1] # InvalidInput
        /\ \/ stat_result[1].outcome = "HardFault"
           \/ /\ stat_result[1].outcome = "returned"
              /\ stat_result[1].std_dev = [sqrt_of |-> Rat(0, 0)]
              /\ stat_result[1].max = stat_result[1].min
              /\ stat_result[1].max.num \in Garbage
              /\ stat_result[1].median.den = 2

\* the call with count = 0 has returned numbers
C15_Witness ==
    /\ EmptyCallOver
    /\ stat_result[1].outcome = "returned"
    /\ stat_result[1].max = Rat(MaxValue, 1)
    /\ stat_result[1].median = Rat(MaxValue, 2)

\* C16: after calculate_median returns, the caller's array holds the same
\* elements at the same positions as before the call.  (The source sorts the
\* caller's array in place: violated.)
C16_InputPreserved == StatsReturned => stat_data = stat_input

\* What the source does: after the call the caller's array is the ascending
\* sort of what it held before.
C16_InputSortedInPlace ==
    StatsReturned => stat_data = AscendingSort(stat_input, stat_count)

\* the caller's array has changed under the call
C16_Witness ==
    /\ StatsReturned
    /\ stat_input = [k \in 0 .. 1 |-> << 2, 1 >>[k + 1]]
    /\ stat_data = [k \in 0 .. 1 |-> << 1, 2 >>[k + 1]]

\* a receive of the iteration that is over returned a status other than HAL_OK
ReadFailed ==
    /\ hal_status # << >>
    /\ \E k \in 1 .. 3 : hal_status[1][k] # "HAL_OK"

\* C17: when a sensor read of an iteration fails, the producer stops with a
\* fatal condition and pushes no reading made from the failed read.  (The
\* source ignores the status: violated.)
C17_ReadFailureFatal ==
    ReadFailed =>
        /\ ppc = "fatal"
        /\ push_log = << >>
        /\ sensor_buffer = snapshot

\* What the source does: whatever the statuses, the iteration pushes one
\* reading made of the bytes found in data[] and the loop goes on.
C17_ReadFailureSwallowed ==
    hal_status # << >> =>
        /\ ppc = "sample"
        /\ Len(push_log) = 1
        /\ push_log[1].data = sensor_data
        /\ sensor_buffer[(buffer_head + BUFFER_SIZE - 1) % BUFFER_SIZE] = sensor_data

\* all three reads of an iteration failed and its reading is in the buffer
C17_Witness ==
    /\ hal_status = << << "HAL_ERROR", "HAL_ERROR", "HAL_BUSY" >> >>
    /\ sensor_buffer # snapshot
    /\ sensor_buffer[(buffer_head + BUFFER_SIZE - 1) % BUFFER_SIZE] = sensor_data

\* sum of x[k]^p over k in 0 .. n-1, for p = 1, 2
RECURSIVE PowerSum(_, _, _)
PowerSum(x, n, p) ==
    IF n = 0 THEN 0
    ELSE PowerSum(x, n - 1, p) + (IF p = 2 THEN x[n - 1] * x[n - 1] ELSE x[n - 1])

\* n^2 * (mean(x^2) - mean(x)^2) = n * sum(x^2) - sum(x)^2
\*                               = n * sum over i of (x_i - mean)^2
ScaledVariance(x, n) == n * PowerSum(x, n, 2) - PowerSum(x, n, 1) * PowerSum(x, n, 1)

\* C18: for every array of length n >= 1 the square of calculate_std_dev times
\* n equals the sum of (x_i - mean)^2, normalised by n and not n - 1; that is,
\* the square equals mean(x^2) - mean(x)^2.
C18_PopulationStdDev ==
    StatsReturned =>
        LET sq == stat_result[1].std_dev.sqrt_of
            n == stat_count
        IN  /\ sq.den > 0
            /\ sq.num * n * n = ScaledVariance(stat_input, n) * sq.den
            /\ (stat_input = [k \in 0 .. 4 |-> k + 1] => RatEq(sq, Rat(2, 1)))
            /\ (stat_input = [k \in 0 .. 1 |-> 2 * (k + 1)] => RatEq(sq, Rat(1, 1)))

\* an unsorted array whose population and sample variances differ
\* (sum of squared deviations 10, n = 4: variance 5/2, not 10/3)
C18_Witness ==
    /\ StatsReturned
    /\ stat_input = [k \in 0 .. 3 |-> << 4, 1, 5, 2 >>[k + 1]]
    /\ RatEq(stat_result[1].std_dev.sqrt_of, Rat(5, 2))

\* C19: the producer holds the mutex from before the first to after the last
\* sample iteration of a batch, and whenever the consumer is copying the
\* buffer out the producer is outside its loop with none or all of the
\* iterations of its batch done.
C19_BatchAtomicity ==
    /\ (ppc = "sample" => sensor_buffer_mutex = {"producer"})
    /\ (cpc = "copy" \/ "consumer" \in sensor_buffer_mutex)
          => /\ ppc # "sample"
             /\ i \in {0, BATCH_SIZE}
             /\ BatchesStarted = BatchesDone

\* the consumer is in the middle of its copy-out after the second batch
C19_Witness ==
    /\ cpc = "copy"
    /\ ci = 1
    /\ i = BATCH_SIZE
    /\ BatchesDone = 2
    /\ sensor_buffer[BUFFER_SIZE - 2] # ZeroReading

\* this step is an iteration of the producer's for loop
SampleIteration == ppc = "sample" /\ i' = i + 1

\* C20: when buffer_push returns false the producer advances buffer_head, not
\* buffer_tail, by one modulo BUFFER_SIZE and pushes again, and this second
\* push returns true; so every iteration of every batch stores exactly one
\* reading in the storage array.
C20_RecoveryStep ==
    [][SampleIteration =>
          LET moved == (buffer_head + 1) % BUFFER_SIZE
              stored == IF moved = buffer_tail THEN moved ELSE buffer_head
          IN  /\ buffer_tail' = buffer_tail
              /\ sensor_buffer' = [sensor_buffer EXCEPT ![stored] = sensor_data']
              /\ buffer_head' = (stored + 1) % BUFFER_SIZE
              /\ push_ret' = << TRUE >>
              /\ Len(push_log') = Len(push_log) + 1
              /\ push_log'[Len(push_log')].data = sensor_data'
              /\ (moved = buffer_tail
                    => /\ buffer_head' = (buffer_head + 2) % BUFFER_SIZE
                       /\ push_log'[Len(push_log')].first = FALSE
                       /\ push_log'[Len(push_log')].retry = << TRUE >>)
              /\ (moved # buffer_tail
                    => /\ push_log'[Len(push_log')].first = TRUE
                       /\ push_log'[Len(push_log')].retry = << >>)]_vars

\* the iteration that found the buffer full has stored its reading in the
\* slot after the old head and left head two further, tail where it was
C20_Witness ==
    /\ Len(push_log) = BUFFER_SIZE
    /\ push_log[BUFFER_SIZE].first = FALSE
    /\ push_log[BUFFER_SIZE].retry = << TRUE >>
    /\ buffer_tail = 0
    /\ buffer_head = 1
    /\ sensor_buffer[0] = push_log[BUFFER_SIZE].data
    /\ sensor_buffer[0] # push_log[1].data

\* slots 0 .. upto-1 of the three arrays hold those slots of the buffer
CopiedBelow(buf, upto) ==
    \A k \in 0 .. (upto - 1) :
        /\ pir_data[k] = buf[k].PIR
        /\ humidity_and_heat_data[k] = buf[k].humidity_and_heat
        /\ ldr_data[k] = buf[k].LDR

\* C21: every copy-out reads all storage slots 0 .. BUFFER_SIZE-1 in index
\* order into three arrays of exactly BUFFER_SIZE elements, whatever head and
\* tail are; the first copy-out after the first batch holds the readings of
\* the batch in the first slots followed by never-written zero entries.
C21_WholeArraySnapshot ==
    /\ DOMAIN pir_data = Slots
    /\ DOMAIN humidity_and_heat_data = Slots
    /\ DOMAIN ldr_data = Slots
    /\ (cpc = "copy" => ci <= BUFFER_SIZE /\ CopiedBelow(sensor_buffer, ci))
    /\ (cpc = "give" => snapshot = sensor_buffer /\ CopiedBelow(snapshot, BUFFER_SIZE))
    /\ (cpc = "give" /\ CopiesDone = 1 /\ BATCH_SIZE < BUFFER_SIZE)
          => \A k \in Slots :
                snapshot[k] = IF k < BATCH_SIZE THEN push_log[k + 1].data
                              ELSE ZeroReading

\* the second copy-out is complete after head has wrapped: the region from
\* tail up to head is one reading long and the arrays hold every slot
C21_Witness ==
    /\ cpc = "give"
    /\ CopiesDone = 2
    /\ (buffer_head - buffer_tail) % BUFFER_SIZE = 1
    /\ pir_data[1] # 0
    /\ pir_data[BUFFER_SIZE - 2] # 0
    /\ CopiedBelow(sensor_buffer, BUFFER_SIZE)

\* C22: buffer_head and buffer_tail always lie in 0 .. BUFFER_SIZE-1; no step
\* (copy-out, push, full-buffer branch) modifies buffer_tail, which is 0 in
\* every reachable state; and after readings have been written buffer_head
\* equals buffer_tail again: the second push of the full-buffer branch finds
\* them equal.
C22_IndexInvariant ==
    /\ [](buffer_head \in Slots /\ buffer_tail \in Slots /\ buffer_tail = 0)
    /\ [][buffer_tail' = buffer_tail]_vars
    /\ [][FullBufferIteration =>
            /\ push_log # << >>
            /\ PushWithRecovery(sensor_buffer, buffer_head, buffer_tail,
                                sensor_data').retry_head = << buffer_tail >>]_vars

\* two copy-outs and a full-buffer branch have run and buffer_tail is where
\* it started, its slot holding the newest reading
C22_Witness ==
    /\ CopiesDone = 2
    /\ Len(push_log) > BUFFER_SIZE
    /\ push_log[BUFFER_SIZE].first = FALSE
    /\ buffer_tail = 0
    /\ buffer_head = 2
    /\ sensor_buffer[buffer_tail] = push_log[BUFFER_SIZE].data

\* C23: with producer_semaphore signalled once at boot, every give on either
\* semaphore finds that semaphore clear, so no signal is ever absorbed by one
\* already pending, and at most one of the two semaphores is pending at any
\* time.
C23_NoLostWakeups ==
    boot_given = 1 =>
        /\ \A k \in DOMAIN sem_log :
              sem_log[k].op = "give" => sem_log[k].before = 0 /\ sem_log[k].after = 1
        /\ producer_semaphore + consumer_semaphore <= 1
        /\ \A sem \in {"producer", "consumer"} :
              Gives(sem) = Takes(sem) + SemCount(sem)

\* after one boot signal both tasks have given twice and the consumer's
\* second signal is pending
C23_Witness ==
    /\ boot_given = 1
    /\ ProducerGives = 2
    /\ ConsumerGives = 2
    /\ producer_semaphore = 1
    /\ consumer_semaphore = 0
    /\ Gives("producer") = 3

\* the last slot of the storage array
LastSlot == BUFFER_SIZE - 1

\* C24: over any number of batches, also after the buffer has filled and
\* head has wrapped, no push and no full-buffer branch writes storage slot
\* BUFFER_SIZE-1, so every copy-out finds the initial zero reading there.
C24_DeadSlot ==
    /\ sensor_buffer[LastSlot] = ZeroReading
    /\ snapshot[LastSlot] = ZeroReading
    /\ (cpc = "give"
          => /\ pir_data[LastSlot] = 0
             /\ humidity_and_heat_data[LastSlot] = 0
             /\ ldr_data[LastSlot] = 0)

\* in the run without end: head has wrapped, every other slot has been
\* written and a copy-out has just finished
C24_Witness ==
    /\ history = "off"
    /\ cpc = "give"
    /\ buffer_head < BUFFER_SIZE - 2
    /\ buffer_head > 0
    /\ \A k \in 0 .. (BUFFER_SIZE - 2) : sensor_buffer[k] # ZeroReading
    /\ \A k \in 0 .. (BUFFER_SIZE - 2) : pir_data[k] # 0
    /\ pir_data[LastSlot] = 0

====
